---- MODULE Spec2Model ----
(***************************************************************************)
(* The LIMIT plan of rust/datafusion/src/execution/physical_plan/limit.rs: *)
(* truncate_batch, collect_with_limit, LocalLimitExec and GlobalLimitExec. *)
(* Partitions are numbered from 0 as in the source; partition p of the     *)
(* input operator is input.partitions[p + 1].                              *)
(***************************************************************************)
EXTENDS Integers, Sequences, FiniteSets, TLC

\* ------------------------------------------------------------------ bounds
MaxParts == 2
MaxBatches == 2
MaxRows == 2
MaxLimit == 3
MaxConc == 2
NumCols == 2

Schemas == {"s1", "s2"}

\* The schema of the input operator (test::aggr_test_schema() in tests::limit).
InputSchema == "s1"

Min(a, b) == IF a <= b THEN a ELSE b

RECURSIVE SumSeq(_)
SumSeq(s) == IF s = <<>> THEN 0 ELSE Head(s) + SumSeq(Tail(s))

RECURSIVE Flatten(_)
Flatten(ss) == IF ss = <<>> THEN <<>> ELSE Head(ss) \o Flatten(Tail(ss))

\* ------------------------------------------------------------ record batches
\* The value stored in column c (from 1) of row i (from 1) of batch b (from 1)
\* of input partition p (from 0): every cell of an input is distinct.
Cell(p, b, i, c) ==
    ((p * (MaxBatches + 1) + b) * (MaxRows + 2) + i) * (NumCols + 2) + c

MkBatch(schema, p, b, n, ncols) ==
    [schema |-> schema,
     columns |-> [c \in 1..ncols |-> [i \in 1..n |-> Cell(p, b, i, c)]]]

num_columns(batch) == Len(batch.columns)

num_rows(batch) == Len(batch.columns[1])

\* The rows of a batch, each row the tuple of its cells in column order.
RowsOf(batch) ==
    [i \in 1..num_rows(batch) |->
        [c \in 1..num_columns(batch) |-> batch.columns[c][i]]]

RowSeq(bs) == Flatten([k \in 1..Len(bs) |-> RowsOf(bs[k])])

RowCount(bs) == SumSeq([k \in 1..Len(bs) |-> num_rows(bs[k])])

\* arrow::compute::limit: the first min(n, len) elements of an array.
limit(array, n) == SubSeq(array, 1, Min(n, Len(array)))

\* RecordBatch::try_new: at least one column, all columns of one length.
RecordBatch_try_new(schema, columns) ==
    IF Len(columns) = 0 \/ \E c \in 1..Len(columns) : Len(columns[c]) # Len(columns[1])
    THEN [ok |-> FALSE]
    ELSE [ok |-> TRUE, batch |-> [schema |-> schema, columns |-> columns]]

\* truncate_batch slicing one element too many from each column.
truncate_batch_plus1(batch, n) ==
    LET limited_columns == [i \in 1..num_columns(batch) |-> limit(batch.columns[i], n + 1)]
    IN  RecordBatch_try_new(batch.schema, limited_columns)

\* truncate_batch keeping the last n rows instead of the first.
truncate_batch_tail(batch, n) ==
    LET limited_columns ==
            [i \in 1..num_columns(batch) |->
                SubSeq(batch.columns[i],
                       Len(batch.columns[i]) - Min(n, Len(batch.columns[i])) + 1,
                       Len(batch.columns[i]))]
    IN  RecordBatch_try_new(batch.schema, limited_columns)

truncate_batch(batch, n) ==
    LET limited_columns == [i \in 1..num_columns(batch) |-> limit(batch.columns[i], n)]
    IN  RecordBatch_try_new(batch.schema, limited_columns)

\* ------------------------------------------------------------ the input operator
\* owner[j] is the partition of the j-th batch of the input; batches of one
\* partition are contiguous.
Owners(n, k) ==
    {o \in [1..k -> 0..(n - 1)] : \A j \in 1..k : \A j2 \in 1..k : j <= j2 => o[j] <= o[j2]}

MkPartition(schema, sizes, owner, p) ==
    LET before == Cardinality({j \in 1..Len(sizes) : owner[j] < p})
        mine == Cardinality({j \in 1..Len(sizes) : owner[j] = p})
    IN  [b \in 1..mine |-> MkBatch(schema, p, b, sizes[before + b], NumCols)]

MkInput(schema, n, sizes, owner) ==
    [schema |-> schema,
     partitions |-> [q \in 1..n |-> MkPartition(schema, sizes, owner, q - 1)]]

Inputs(schema) ==
    UNION {UNION {{MkInput(schema, n, sizes, owner) :
                        sizes \in [1..k -> 0..MaxRows], owner \in Owners(n, k)} :
                  k \in 0..MaxBatches} :
           n \in 1..MaxParts}

partition_count(inp) == Len(inp.partitions)

TotalRows(inp) ==
    SumSeq([q \in 1..partition_count(inp) |-> RowCount(inp.partitions[q])])

\* RecordBatchReader::next_batch on the iterator of one input partition, after
\* pos earlier calls; the call numbered failAt returns an error (0: none does).
next_batch(part, pos, failAt) ==
    IF pos + 1 = failAt THEN [tag |-> "err"]
    ELSE IF pos < Len(part) THEN [tag |-> "some", batch |-> part[pos + 1]]
    ELSE [tag |-> "none"]

\* ------------------------------------------------------------ collect_with_limit
\* The locals of collect_with_limit before the loop.
collect_start ==
    [reader |-> 0, count |-> 0, results |-> <<>>, status |-> "loop",
     truncs |-> 0, errs |-> 0]

\* collect_iter stopping one row short of the limit.
collect_iter_short(st, item, lim) ==
    LET pulled == [st EXCEPT !.reader = @ + 1]
        short == IF lim > 0 THEN lim - 1 ELSE 0
    IN
    IF item.tag = "err" THEN [pulled EXCEPT !.status = "err", !.errs = @ + 1]
    ELSE IF item.tag = "none" THEN [pulled EXCEPT !.status = "ok"]
    ELSE LET batch == item.batch
             capacity == short - st.count
         IN  IF num_rows(batch) <= capacity
             THEN LET c == st.count + num_rows(batch)
                  IN  [pulled EXCEPT !.count = c,
                                     !.results = Append(@, batch),
                                     !.status = IF c = short THEN "ok" ELSE "loop"]
             ELSE LET t == truncate_batch(batch, capacity)
                  IN  IF ~t.ok
                      THEN [pulled EXCEPT !.status = "err", !.truncs = @ + 1]
                      ELSE LET c == st.count + num_rows(t.batch)
                           IN  [pulled EXCEPT !.count = c,
                                              !.results = Append(@, t.batch),
                                              !.truncs = @ + 1,
                                              !.status = IF c = short THEN "ok" ELSE "loop"]

\* collect_iter with the capacity one too large.
collect_iter_more(st, item, lim) ==
    LET pulled == [st EXCEPT !.reader = @ + 1] IN
    IF item.tag = "err" THEN [pulled EXCEPT !.status = "err", !.errs = @ + 1]
    ELSE IF item.tag = "none" THEN [pulled EXCEPT !.status = "ok"]
    ELSE LET batch == item.batch
             capacity == lim - st.count + 1
         IN  IF num_rows(batch) <= capacity
             THEN LET c == st.count + num_rows(batch)
                  IN  [pulled EXCEPT !.count = c,
                                     !.results = Append(@, batch),
                                     !.status = IF c = lim THEN "ok" ELSE "loop"]
             ELSE LET t == truncate_batch(batch, capacity)
                  IN  IF ~t.ok
                      THEN [pulled EXCEPT !.status = "err", !.truncs = @ + 1]
                      ELSE LET c == st.count + num_rows(t.batch)
                           IN  [pulled EXCEPT !.count = c,
                                              !.results = Append(@, t.batch),
                                              !.truncs = @ + 1,
                                              !.status = IF c = lim THEN "ok" ELSE "loop"]

\* collect_iter taking a failed pull for the end of the stream.
collect_iter_swallow(st, item, lim) ==
    LET pulled == [st EXCEPT !.reader = @ + 1] IN
    IF item.tag = "err" THEN [pulled EXCEPT !.status = "ok", !.errs = @ + 1]
    ELSE IF item.tag = "none" THEN [pulled EXCEPT !.status = "ok"]
    ELSE LET batch == item.batch
             capacity == lim - st.count
         IN  IF num_rows(batch) <= capacity
             THEN LET c == st.count + num_rows(batch)
                  IN  [pulled EXCEPT !.count = c,
                                     !.results = Append(@, batch),
                                     !.status = IF c = lim THEN "ok" ELSE "loop"]
             ELSE LET t == truncate_batch(batch, capacity)
                  IN  IF ~t.ok
                      THEN [pulled EXCEPT !.status = "err", !.truncs = @ + 1]
                      ELSE LET c == st.count + num_rows(t.batch)
                           IN  [pulled EXCEPT !.count = c,
                                              !.results = Append(@, t.batch),
                                              !.truncs = @ + 1,
                                              !.status = IF c = lim THEN "ok" ELSE "loop"]

\* collect_iter with the comparison of the batch with the capacity reversed.
collect_iter_reversed(st, item, lim) ==
    LET pulled == [st EXCEPT !.reader = @ + 1] IN
    IF item.tag = "err" THEN [pulled EXCEPT !.status = "err", !.errs = @ + 1]
    ELSE IF item.tag = "none" THEN [pulled EXCEPT !.status = "ok"]
    ELSE LET batch == item.batch
             capacity == lim - st.count
         IN  IF num_rows(batch) >= capacity
             THEN LET c == st.count + num_rows(batch)
                  IN  [pulled EXCEPT !.count = c,
                                     !.results = Append(@, batch),
                                     !.status = IF c = lim THEN "ok" ELSE "loop"]
             ELSE LET t == truncate_batch(batch, capacity)
                  IN  IF ~t.ok
                      THEN [pulled EXCEPT !.status = "err", !.truncs = @ + 1]
                      ELSE LET c == st.count + num_rows(t.batch)
                           IN  [pulled EXCEPT !.count = c,
                                              !.results = Append(@, t.batch),
                                              !.truncs = @ + 1,
                                              !.status = IF c = lim THEN "ok" ELSE "loop"]

\* One iteration of the loop of collect_with_limit on the pulled item.
collect_iter(st, item, lim) ==
    LET pulled == [st EXCEPT !.reader = @ + 1] IN
    IF item.tag = "err" THEN [pulled EXCEPT !.status = "err", !.errs = @ + 1]
    ELSE IF item.tag = "none" THEN [pulled EXCEPT !.status = "ok"]
    ELSE LET batch == item.batch
             capacity == lim - st.count
         IN  IF num_rows(batch) <= capacity
             THEN LET c == st.count + num_rows(batch)
                  IN  [pulled EXCEPT !.count = c,
                                     !.results = Append(@, batch),
                                     !.status = IF c = lim THEN "ok" ELSE "loop"]
             ELSE LET t == truncate_batch(batch, capacity)
                  IN  IF ~t.ok
                      THEN [pulled EXCEPT !.status = "err", !.truncs = @ + 1]
                      ELSE LET c == st.count + num_rows(t.batch)
                           IN  [pulled EXCEPT !.count = c,
                                              !.results = Append(@, t.batch),
                                              !.truncs = @ + 1,
                                              !.status = IF c = lim THEN "ok" ELSE "loop"]

RECURSIVE collect_loop(_, _, _, _)
collect_loop(part, failAt, lim, st) ==
    IF st.status # "loop" THEN st
    ELSE collect_loop(part, failAt, lim,
                      collect_iter(st, next_batch(part, st.reader, failAt), lim))

collect_with_limit(part, failAt, lim) == collect_loop(part, failAt, lim, collect_start)

\* ------------------------------------------------------------ LocalLimitExec
LocalLimitExec_new(inp, schema, lim) == [schema |-> schema, limit |-> lim]

LocalLimitExec_schema(self, inp) == inp.schema

LocalLimitExec_output_partitioning(self, inp) == partition_count(inp)

\* MemoryIterator::try_new(batches, schema, None)
MemoryIterator_try_new(bs, schema) == [schema |-> schema, batches |-> bs]

\* A failure scenario: no failure, input.execute(p) fails (pull = 0), or the
\* pull-th next_batch on partition p fails.
NoFail == [p |-> -1, pull |-> 0]

FailAt(f, p) == IF f.p = p THEN f.pull ELSE 0

\* LocalLimitExec::execute(p) as one call.
LocalLimitExec_execute(ll, inp, p, f) ==
    IF f.p = p /\ f.pull = 0
    THEN [ok |-> FALSE, pulls |-> 0, truncs |-> 0, errs |-> 1, executed |-> TRUE]
    ELSE LET st == collect_with_limit(inp.partitions[p + 1], FailAt(f, p), ll.limit)
         IN  IF st.status = "ok"
             THEN [ok |-> TRUE, it |-> MemoryIterator_try_new(st.results, ll.schema),
                   pulls |-> st.reader, truncs |-> st.truncs, errs |-> st.errs,
                   executed |-> TRUE]
             ELSE [ok |-> FALSE, pulls |-> st.reader, truncs |-> st.truncs,
                   errs |-> st.errs, executed |-> TRUE]

\* RecordBatchIterator::new(schema, batches)
RecordBatchIterator_new(schema, bs) == [schema |-> schema, batches |-> bs]

\* ------------------------------------------------------------ MergeExec
Orders(n) ==
    {o \in [1..n -> 0..(n - 1)] : \A j \in 1..n : \A j2 \in 1..n : o[j] = o[j2] => j = j2}

\* MergeExec::execute(0): every partition of the local limiter is executed;
\* the batches are emitted partition by partition in the order ord.
MergeExec_execute(schema, ll, inp, ord, f) ==
    LET n == partition_count(inp)
        outs == [q \in 1..n |-> LocalLimitExec_execute(ll, inp, q - 1, f)]
    IN  IF \E q \in 1..n : ~outs[q].ok
        THEN [ok |-> FALSE, outs |-> outs]
        ELSE [ok |-> TRUE, outs |-> outs,
              it |-> MemoryIterator_try_new(
                         Flatten([j \in 1..n |-> outs[ord[j] + 1].it.batches]), schema)]

\* ------------------------------------------------------------ GlobalLimitExec
GlobalLimitExec_new(schema, inp, lim, concurrency) ==
    [schema |-> schema, limit |-> lim, concurrency |-> concurrency]

GlobalLimitExec_schema(self) == self.schema

GlobalLimitExec_output_partitioning(self) == 1

\* The locals of GlobalLimitExec::execute before its loop.
global_start ==
    [count |-> 0, combined_results |-> <<>>, status |-> "loop", truncs |-> 0]

\* global_iter keeping the whole batch where it should keep the truncated one.
global_iter_whole(st, batch, lim) ==
    LET capacity == lim - st.count IN
    IF num_rows(batch) <= capacity
    THEN LET c == st.count + num_rows(batch)
         IN  [st EXCEPT !.count = c,
                        !.combined_results = Append(@, batch),
                        !.status = IF c = lim THEN "break" ELSE "loop"]
    ELSE LET t == truncate_batch(batch, capacity)
         IN  IF ~t.ok
             THEN [st EXCEPT !.status = "err", !.truncs = @ + 1]
             ELSE LET c == st.count + num_rows(batch)
                  IN  [st EXCEPT !.count = c,
                                 !.combined_results = Append(@, batch),
                                 !.truncs = @ + 1,
                                 !.status = IF c = lim THEN "break" ELSE "loop"]

\* global_iter without the break at count == limit.
global_iter_nobreak(st, batch, lim) ==
    LET capacity == lim - st.count IN
    IF num_rows(batch) <= capacity
    THEN LET c == st.count + num_rows(batch)
         IN  [st EXCEPT !.count = c,
                        !.combined_results = Append(@, batch),
                        !.status = "loop"]
    ELSE LET t == truncate_batch(batch, capacity)
         IN  IF ~t.ok
             THEN [st EXCEPT !.status = "err", !.truncs = @ + 1]
             ELSE LET c == st.count + num_rows(t.batch)
                  IN  [st EXCEPT !.count = c,
                                 !.combined_results = Append(@, t.batch),
                                 !.truncs = @ + 1,
                                 !.status = "loop"]

\* One iteration of the loop of GlobalLimitExec::execute on one collected batch.
global_iter(st, batch, lim) ==
    LET capacity == lim - st.count IN
    IF num_rows(batch) <= capacity
    THEN LET c == st.count + num_rows(batch)
         IN  [st EXCEPT !.count = c,
                        !.combined_results = Append(@, batch),
                        !.status = IF c = lim THEN "break" ELSE "loop"]
    ELSE LET t == truncate_batch(batch, capacity)
         IN  IF ~t.ok
             THEN [st EXCEPT !.status = "err", !.truncs = @ + 1]
             ELSE LET c == st.count + num_rows(t.batch)
                  IN  [st EXCEPT !.count = c,
                                 !.combined_results = Append(@, t.batch),
                                 !.truncs = @ + 1,
                                 !.status = IF c = lim THEN "break" ELSE "loop"]

RECURSIVE global_loop(_, _, _, _)
global_loop(bs, i, lim, st) ==
    IF st.status # "loop" \/ i > Len(bs) THEN st
    ELSE global_loop(bs, i + 1, lim, global_iter(st, bs[i], lim))

\* GlobalLimitExec::execute(0) as one call when no pull fails, the merge
\* emitting the partitions in the order ord.
GlobalLimitExec_execute(self, inp, ord) ==
    LET local_limit == LocalLimitExec_new(inp, self.schema, self.limit)
        m == MergeExec_execute(self.schema, local_limit, inp, ord, NoFail)
        st == global_loop(m.it.batches, 1, self.limit, global_start)
    IN  RecordBatchIterator_new(self.schema, st.combined_results)

\* ------------------------------------------------------------------ state
VARIABLES
    input,             \* the input operator: its schema and its partitions
    glimit,            \* the GlobalLimitExec (schema, limit, concurrency)
    llimit,            \* the LocalLimitExec (schema, limit)
    partition,         \* the argument of the execute call
    pc,                \* the position of the call
    executed,          \* the input partitions input.execute was called on
    pulled,            \* per input partition, the number of next_batch calls
    truncs,            \* the number of truncate_batch calls
    errs,              \* the number of pulls and executes that failed
    order,             \* the order in which the merge emitted the partitions
    it,                \* the iterator returned by merge.execute(0)
    batches,           \* the batches collected from it
    i,                 \* the index in batches of the next batch of the loop
    count,             \* the local count of the running loop
    combined_results,  \* the local combined_results of GlobalLimitExec::execute
    reader,            \* the number of batches read from the locked reader
    results,           \* the local results of collect_with_limit
    arg_batch,         \* the batch given to a direct call of truncate_batch
    arg_n,             \* the n given to a direct call of truncate_batch
    lock,              \* the holder of the mutex of the shared reader (0: free)
    threads,           \* per thread running collect_with_limit on the shared reader, its locals
    log,               \* the next_batch calls made on the shared reader, in order
    iters,             \* the iterators that execute calls returned, with their positions
    ret                \* what the call returned

vars == <<input, glimit, llimit, partition, pc, executed, pulled, truncs, errs,
          order, it, batches, i, count, combined_results, reader, results,
          arg_batch, arg_n, lock, threads, log, iters, ret>>

None == [kind |-> "none"]

Panic == [kind |-> "panic"]

ErrRet == [kind |-> "err"]

OkRet(iter) == [kind |-> "ok", schema |-> iter.schema, batches |-> iter.batches]

NoPulls(inp) == [q \in 1..partition_count(inp) |-> 0]

\* No call has been made.
InitCall ==
    /\ partition = -1
    /\ executed = {}
    /\ pulled = NoPulls(input)
    /\ truncs = 0
    /\ errs = 0
    /\ order = <<>>
    /\ it = None
    /\ batches = <<>>
    /\ i = 1
    /\ count = 0
    /\ combined_results = <<>>
    /\ reader = 0
    /\ results = <<>>
    /\ arg_n = -1
    /\ lock = 0
    /\ log = <<>>
    /\ iters = <<>>
    /\ ret = None

\* ------------------------------------------------ GlobalLimitExec::execute
Init ==
    /\ input \in Inputs(InputSchema)
    /\ \E lim \in 0..MaxLimit : \E concurrency \in 1..MaxConc :
          glimit = GlobalLimitExec_new(input.schema, input, lim, concurrency)
    /\ llimit = None
    /\ pc = "idle"
    /\ InitCall
    /\ arg_batch = None
    /\ threads = <<>>

\* Execute without the assertion on the partition.
Execute_noassert(part) ==
    /\ pc = "idle"
    /\ partition' = part
    /\ pc' = "merge"
    /\ llimit' = LocalLimitExec_new(input, glimit.schema, glimit.limit)
    /\ UNCHANGED <<input, glimit, executed, pulled, truncs, errs, order, it,
                   batches, i, count, combined_results, reader, results,
                   arg_batch, arg_n, ret, lock, threads, log, iters>>

\* execute(part): the assertion on the partition, then the local limiter.
Execute(part) ==
    /\ pc = "idle"
    /\ partition' = part
    /\ IF part # 0
       THEN /\ pc' = "panicked"
            /\ ret' = Panic
            /\ UNCHANGED llimit
       ELSE /\ pc' = "merge"
            /\ llimit' = LocalLimitExec_new(input, glimit.schema, glimit.limit)
            /\ UNCHANGED ret
    /\ UNCHANGED <<input, glimit, executed, pulled, truncs, errs, order, it,
                   batches, i, count, combined_results, reader, results,
                   arg_batch, arg_n, lock, threads, log, iters>>

\* let it = merge.execute(0)?  when every local limiter returns Ok
Merge(ord) ==
    /\ pc = "merge"
    /\ LET n == partition_count(input)
           m == MergeExec_execute(glimit.schema, llimit, input, ord, NoFail)
       IN  /\ order' = ord
           /\ executed' = {q - 1 : q \in {q \in 1..n : m.outs[q].executed}}
           /\ pulled' = [q \in 1..n |-> m.outs[q].pulls]
           /\ truncs' = truncs + SumSeq([q \in 1..n |-> m.outs[q].truncs])
           /\ errs' = errs + SumSeq([q \in 1..n |-> m.outs[q].errs])
           /\ IF m.ok
              THEN /\ it' = m.it
                   /\ pc' = "collect"
                   /\ UNCHANGED ret
              ELSE /\ pc' = "done"
                   /\ ret' = ErrRet
                   /\ UNCHANGED it
    /\ UNCHANGED <<input, glimit, llimit, partition, batches, i, count,
                   combined_results, reader, results,
                   arg_batch, arg_n, lock, threads, log, iters>>

\* let it = merge.execute(0)?  when the input fails as f says: nothing is emitted
MergeFail(f) ==
    /\ pc = "merge"
    /\ LET n == partition_count(input)
           m == MergeExec_execute(glimit.schema, llimit, input, [j \in 1..n |-> j - 1], f)
       IN  /\ \E q \in 1..n : m.outs[q].errs > 0
           /\ executed' = {q - 1 : q \in {q \in 1..n : m.outs[q].executed}}
           /\ pulled' = [q \in 1..n |-> m.outs[q].pulls]
           /\ truncs' = truncs + SumSeq([q \in 1..n |-> m.outs[q].truncs])
           /\ errs' = errs + SumSeq([q \in 1..n |-> m.outs[q].errs])
           /\ IF m.ok
              THEN /\ it' = m.it
                   /\ pc' = "collect"
                   /\ UNCHANGED ret
              ELSE /\ pc' = "done"
                   /\ ret' = ErrRet
                   /\ UNCHANGED it
    /\ UNCHANGED <<input, glimit, llimit, partition, order, batches, i, count,
                   combined_results, reader, results,
                   arg_batch, arg_n, lock, threads, log, iters>>

\* let batches = common::collect(it)?
Collect(fails) ==
    /\ pc = "collect"
    /\ IF fails
       THEN /\ pc' = "done"
            /\ ret' = ErrRet
            /\ errs' = errs + 1
            /\ UNCHANGED batches
       ELSE /\ pc' = "loop"
            /\ batches' = it.batches
            /\ UNCHANGED <<ret, errs>>
    /\ UNCHANGED <<input, glimit, llimit, partition, executed, pulled, truncs,
                   order, it, i, count, combined_results, reader, results,
                   arg_batch, arg_n, lock, threads, log, iters>>

\* One iteration of: for batch in batches { ... }
LoopIter ==
    /\ pc = "loop"
    /\ i <= Len(batches)
    /\ LET st == global_iter([count |-> count, combined_results |-> combined_results,
                              status |-> "loop", truncs |-> truncs],
                             batches[i], glimit.limit)
       IN  /\ count' = st.count
           /\ combined_results' = st.combined_results
           /\ truncs' = st.truncs
           /\ i' = i + 1
           /\ IF st.status = "err"
              THEN pc' = "done" /\ ret' = ErrRet
              ELSE /\ pc' = IF st.status = "break" THEN "wrap" ELSE "loop"
                   /\ UNCHANGED ret
    /\ UNCHANGED <<input, glimit, llimit, partition, executed, pulled, errs, order,
                   it, batches, reader, results,
                   arg_batch, arg_n, lock, threads, log, iters>>

\* The loop ends with the last batch.
LoopExit ==
    /\ pc = "loop"
    /\ i > Len(batches)
    /\ pc' = "wrap"
    /\ UNCHANGED <<input, glimit, llimit, partition, executed, pulled, truncs, errs,
                   order, it, batches, i, count, combined_results, reader, results, ret,
                   arg_batch, arg_n, lock, threads, log, iters>>

\* Return taking the returned rows off the limit of the operator.
Return_consume ==
    /\ pc = "wrap"
    /\ pc' = "done"
    /\ ret' = OkRet(RecordBatchIterator_new(glimit.schema, combined_results))
    /\ glimit' = [glimit EXCEPT !.limit = @ - count]
    /\ UNCHANGED <<input, llimit, partition, executed, pulled, truncs, errs,
                   order, it, batches, i, count, combined_results, reader, results,
                   arg_batch, arg_n, lock, threads, log, iters>>

\* Ok(Arc::new(Mutex::new(RecordBatchIterator::new(schema, combined_results))))
Return ==
    /\ pc = "wrap"
    /\ pc' = "done"
    /\ ret' = OkRet(RecordBatchIterator_new(glimit.schema, combined_results))
    /\ UNCHANGED <<input, glimit, llimit, partition, executed, pulled, truncs, errs,
                   order, it, batches, i, count, combined_results, reader, results,
                   arg_batch, arg_n, lock, threads, log, iters>>

Fails(inp) == [p : 0..(partition_count(inp) - 1), pull : 0..(MaxBatches + 1)]

Next ==
    \/ \E part \in 0..MaxParts : Execute(part)
    \/ \E ord \in Orders(partition_count(input)) : Merge(ord)
    \/ \E f \in Fails(input) : MergeFail(f)
    \/ \E fails \in BOOLEAN : Collect(fails)
    \/ LoopIter
    \/ LoopExit
    \/ Return

Spec == Init /\ [][Next]_vars

\* ------------------------------------------------ LocalLimitExec::execute
InitLocal ==
    /\ input \in Inputs(InputSchema)
    /\ \E schema \in Schemas : \E lim \in 0..MaxLimit :
          llimit = LocalLimitExec_new(input, schema, lim)
    /\ glimit = None
    /\ pc = "l_idle"
    /\ InitCall
    /\ arg_batch = None
    /\ threads = <<>>

\* let it = self.input.execute(partition)?  and the first lines of
\* collect_with_limit: the reader is locked, count = 0, results = vec![]
LocalExecute(p, fails) ==
    /\ pc = "l_idle"
    /\ partition' = p
    /\ executed' = executed \cup {p}
    /\ IF fails
       THEN /\ pc' = "done"
            /\ ret' = ErrRet
            /\ errs' = errs + 1
       ELSE /\ pc' = "l_loop"
            /\ UNCHANGED <<ret, errs>>
    /\ reader' = collect_start.reader
    /\ count' = collect_start.count
    /\ results' = collect_start.results
    /\ UNCHANGED <<input, glimit, llimit, pulled, truncs, order, it, batches, i,
                   combined_results,
                   arg_batch, arg_n, lock, threads, log, iters>>

\* One iteration of the loop of collect_with_limit: match reader.next_batch()
Pull(fails) ==
    /\ pc = "l_loop"
    /\ LET part == input.partitions[partition + 1]
           item == next_batch(part, reader, IF fails THEN reader + 1 ELSE 0)
           st == collect_iter([reader |-> reader, count |-> count, results |-> results,
                               status |-> "loop", truncs |-> truncs, errs |-> errs],
                              item, llimit.limit)
       IN  /\ reader' = st.reader
           /\ pulled' = [pulled EXCEPT ![partition + 1] = @ + 1]
           /\ count' = st.count
           /\ results' = st.results
           /\ truncs' = st.truncs
           /\ errs' = st.errs
           /\ IF st.status = "err"
              THEN pc' = "done" /\ ret' = ErrRet
              ELSE /\ pc' = IF st.status = "ok" THEN "l_wrap" ELSE "l_loop"
                   /\ UNCHANGED ret
    /\ UNCHANGED <<input, glimit, llimit, partition, executed, order, it, batches, i,
                   combined_results,
                   arg_batch, arg_n, lock, threads, log, iters>>

\* Ok(Arc::new(Mutex::new(MemoryIterator::try_new(results, schema, None)?)))
LocalReturn ==
    /\ pc = "l_wrap"
    /\ pc' = "done"
    /\ ret' = OkRet(MemoryIterator_try_new(results, llimit.schema))
    /\ UNCHANGED <<input, glimit, llimit, partition, executed, pulled, truncs, errs,
                   order, it, batches, i, count, combined_results, reader, results,
                   arg_batch, arg_n, lock, threads, log, iters>>

NextLocal ==
    \/ \E p \in 0..(partition_count(input) - 1) : \E fails \in BOOLEAN :
          LocalExecute(p, fails)
    \/ \E fails \in BOOLEAN : Pull(fails)
    \/ LocalReturn

SpecLocal == InitLocal /\ [][NextLocal]_vars

\* ------------------------------------------------ truncate_batch
TruncBatches ==
    {MkBatch(schema, p, b, n, ncols) :
        schema \in Schemas, p \in 0..(MaxParts - 1), b \in 1..MaxBatches,
        n \in 0..MaxRows, ncols \in 1..NumCols}

InitTrunc ==
    /\ input = [schema |-> InputSchema, partitions |-> <<>>]
    /\ glimit = None
    /\ llimit = None
    /\ pc = "t_idle"
    /\ InitCall
    /\ arg_batch \in TruncBatches
    /\ threads = <<>>

\* A call truncate_batch(&arg_batch, n)
Truncate(n) ==
    /\ pc = "t_idle"
    /\ pc' = "done"
    /\ arg_n' = n
    /\ truncs' = truncs + 1
    /\ LET t == truncate_batch(arg_batch, n)
       IN  ret' = IF t.ok THEN [kind |-> "batch", batch |-> t.batch] ELSE ErrRet
    /\ UNCHANGED <<input, glimit, llimit, partition, executed, pulled, errs, order,
                   it, batches, i, count, combined_results, reader, results, arg_batch, lock, threads, log, iters>>

NextTrunc == \E n \in 0..MaxLimit : Truncate(n)

SpecTrunc == InitTrunc /\ [][NextTrunc]_vars

\* ------------------------------------------------ new, schema, output_partitioning
InitNew ==
    /\ \E schema \in Schemas : input \in Inputs(schema)
    /\ glimit = None
    /\ llimit = None
    /\ pc = "n_idle"
    /\ InitCall
    /\ arg_batch = None
    /\ threads = <<>>

\* GlobalLimitExec::new(schema, input, lim, concurrency)
NewGlobal(schema, lim, concurrency) ==
    /\ pc = "n_idle"
    /\ pc' = "g_built"
    /\ glimit' = GlobalLimitExec_new(schema, input, lim, concurrency)
    /\ UNCHANGED <<input, llimit, partition, executed, pulled, truncs, errs, order,
                   it, batches, i, count, combined_results, reader, results,
                   arg_batch, arg_n, ret, lock, threads, log, iters>>

\* LocalLimitExec::new(input, schema, lim)
NewLocal(schema, lim) ==
    /\ pc = "n_idle"
    /\ pc' = "l_built"
    /\ llimit' = LocalLimitExec_new(input, schema, lim)
    /\ UNCHANGED <<input, glimit, partition, executed, pulled, truncs, errs, order,
                   it, batches, i, count, combined_results, reader, results,
                   arg_batch, arg_n, ret, lock, threads, log, iters>>

\* GlobalLimitExec::schema()
GlobalSchema ==
    /\ pc = "g_built"
    /\ pc' = "done"
    /\ ret' = [kind |-> "schema", op |-> "GlobalLimitExec",
               schema |-> GlobalLimitExec_schema(glimit)]
    /\ UNCHANGED <<input, glimit, llimit, partition, executed, pulled, truncs, errs,
                   order, it, batches, i, count, combined_results, reader, results,
                   arg_batch, arg_n, lock, threads, log, iters>>

\* GlobalLimitExec::output_partitioning()
GlobalPartitioning ==
    /\ pc = "g_built"
    /\ pc' = "done"
    /\ ret' = [kind |-> "partitioning",
               partition_count |-> GlobalLimitExec_output_partitioning(glimit)]
    /\ UNCHANGED <<input, glimit, llimit, partition, executed, pulled, truncs, errs,
                   order, it, batches, i, count, combined_results, reader, results,
                   arg_batch, arg_n, lock, threads, log, iters>>

\* LocalLimitExec::schema()
LocalSchema ==
    /\ pc = "l_built"
    /\ pc' = "done"
    /\ ret' = [kind |-> "schema", op |-> "LocalLimitExec",
               schema |-> LocalLimitExec_schema(llimit, input)]
    /\ UNCHANGED <<input, glimit, llimit, partition, executed, pulled, truncs, errs,
                   order, it, batches, i, count, combined_results, reader, results,
                   arg_batch, arg_n, lock, threads, log, iters>>

\* LocalLimitExec::output_partitioning()
LocalPartitioning ==
    /\ pc = "l_built"
    /\ pc' = "done"
    /\ ret' = [kind |-> "partitioning",
               partition_count |-> LocalLimitExec_output_partitioning(llimit, input)]
    /\ UNCHANGED <<input, glimit, llimit, partition, executed, pulled, truncs, errs,
                   order, it, batches, i, count, combined_results, reader, results,
                   arg_batch, arg_n, lock, threads, log, iters>>

NextNew ==
    \/ \E schema \in Schemas : \E lim \in 0..MaxLimit : \E concurrency \in 1..MaxConc :
          NewGlobal(schema, lim, concurrency)
    \/ \E schema \in Schemas : \E lim \in 0..MaxLimit : NewLocal(schema, lim)
    \/ GlobalSchema
    \/ GlobalPartitioning
    \/ LocalSchema
    \/ LocalPartitioning

SpecNew == InitNew /\ [][NextNew]_vars

\* ------------------------------------------------ collect_with_limit on a shared reader
\* The threads that hold the same Arc<Mutex<reader>> and call collect_with_limit on it.
NumThreads == 2

OtherVarsShared ==
    <<input, glimit, llimit, partition, pc, executed, pulled, truncs, errs, order, it,
      batches, i, count, combined_results, results, arg_batch, arg_n, iters, ret>>

InitShared ==
    /\ input \in {inp \in Inputs(InputSchema) : partition_count(inp) = 1}
    /\ \E lim \in 0..MaxLimit : llimit = LocalLimitExec_new(input, input.schema, lim)
    /\ glimit = None
    /\ pc = "shared"
    /\ InitCall
    /\ arg_batch = None
    /\ threads = [t \in 1..NumThreads |->
                     [pc |-> "start", at |-> 0, count |-> 0, results |-> <<>>,
                      truncs |-> 0, ret |-> None]]

\* reader.lock() taken although another thread holds the mutex.
SharedLock_nomutex(t) ==
    /\ pc = "shared"
    /\ threads[t].pc = "start"
    /\ lock' = t
    /\ threads' = [threads EXCEPT ![t].pc = "locked",
                                  ![t].count = collect_start.count,
                                  ![t].results = collect_start.results]
    /\ UNCHANGED <<reader, log>>
    /\ UNCHANGED OtherVarsShared

\* let mut reader = reader.lock().unwrap();  with count = 0 and results = vec![]
SharedLock(t) ==
    /\ pc = "shared"
    /\ threads[t].pc = "start"
    /\ lock = 0
    /\ lock' = t
    /\ threads' = [threads EXCEPT ![t].pc = "locked",
                                  ![t].count = collect_start.count,
                                  ![t].results = collect_start.results]
    /\ UNCHANGED <<reader, log>>
    /\ UNCHANGED OtherVarsShared

\* reader.next_batch() is called: the call reads the position of the reader.
SharedPullBegin(t) ==
    /\ pc = "shared"
    /\ threads[t].pc = "locked"
    /\ threads' = [threads EXCEPT ![t].pc = "pulling", ![t].at = reader]
    /\ UNCHANGED <<reader, lock, log>>
    /\ UNCHANGED OtherVarsShared

\* reader.next_batch() returns and the iteration of the loop runs on its
\* result; a return from collect_with_limit drops the guard of the mutex.
SharedPullEnd(t, fails) ==
    /\ pc = "shared"
    /\ threads[t].pc = "pulling"
    /\ LET me == threads[t]
           part == input.partitions[1]
           item == next_batch(part, me.at, IF fails THEN me.at + 1 ELSE 0)
           st == collect_iter([reader |-> me.at, count |-> me.count,
                               results |-> me.results, status |-> "loop",
                               truncs |-> me.truncs, errs |-> 0],
                              item, llimit.limit)
       IN  /\ reader' = st.reader
           /\ log' = Append(log, [t |-> t, idx |-> me.at + 1])
           /\ threads' =
                  [threads EXCEPT
                      ![t] = [pc |-> IF st.status = "loop" THEN "locked" ELSE "done",
                              at |-> me.at,
                              count |-> st.count,
                              results |-> st.results,
                              truncs |-> st.truncs,
                              ret |-> IF st.status = "loop" THEN None
                                      ELSE IF st.status = "ok"
                                      THEN [kind |-> "ok", batches |-> st.results]
                                      ELSE ErrRet]]
           /\ lock' = IF st.status = "loop" THEN lock ELSE 0
    /\ UNCHANGED OtherVarsShared

NextShared ==
    \/ \E t \in 1..NumThreads : SharedLock(t)
    \/ \E t \in 1..NumThreads : SharedPullBegin(t)
    \/ \E t \in 1..NumThreads : \E fails \in BOOLEAN : SharedPullEnd(t, fails)

SpecShared == InitShared /\ [][NextShared]_vars

\* ------------------------------------------ LocalLimitExec::execute on any upstream
\* The upstream iterator is any implementation of the iterator interface: every
\* pull yields a batch, the end of the stream or an error.  A stream that ends
\* replays the batches of the partition; an endless one starts over after the
\* last batch.  A run on an endless stream of zero-row batches pulls and
\* appends for ever: of such a run the state records the first MaxPulls pulls
\* and batches and goes on pulling.  MaxPulls is above the number of pulls
\* that any other run makes.
MaxPulls == MaxBatches * (MaxLimit + 1) + 1

InitStream ==
    /\ input \in {inp \in Inputs(InputSchema) : partition_count(inp) = 1}
    /\ \E lim \in 0..MaxLimit : llimit = LocalLimitExec_new(input, input.schema, lim)
    /\ glimit = None
    /\ pc = "l_idle"
    /\ InitCall
    /\ arg_batch = None
    /\ threads = <<>>

\* let it = self.input.execute(partition)?  and the first lines of
\* collect_with_limit: the reader is locked, count = 0, results = vec![]
StreamExecute(endless, fails) ==
    /\ pc = "l_idle"
    /\ endless => Len(input.partitions[1]) > 0
    /\ partition' = 0
    /\ executed' = executed \cup {0}
    /\ IF fails
       THEN /\ pc' = "done"
            /\ ret' = ErrRet
            /\ errs' = errs + 1
            /\ UNCHANGED it
       ELSE /\ pc' = "l_loop"
            /\ it' = [kind |-> "stream", endless |-> endless]
            /\ UNCHANGED <<ret, errs>>
    /\ reader' = collect_start.reader
    /\ count' = collect_start.count
    /\ results' = collect_start.results
    /\ UNCHANGED <<input, glimit, llimit, pulled, truncs, order, batches, i,
                   combined_results,
                   arg_batch, arg_n, lock, threads, log, iters>>

\* StreamPull on an upstream that starts over after its last batch although
\* the stream ends there.
StreamPull_restart(fails) ==
    /\ pc = "l_loop"
    /\ LET part == input.partitions[1]
           item == next_batch(part, reader, IF fails THEN reader + 1 ELSE 0)
           st == collect_iter([reader |-> reader, count |-> count, results |-> results,
                               status |-> "loop", truncs |-> truncs, errs |-> errs],
                              item, llimit.limit)
       IN  /\ reader' = IF st.reader >= Len(part) /\ Len(part) > 0
                        THEN 0 ELSE st.reader
           /\ pulled' = [pulled EXCEPT ![1] = Min(@ + 1, MaxPulls)]
           /\ count' = st.count
           /\ results' = IF Len(st.results) > MaxPulls THEN results ELSE st.results
           /\ truncs' = st.truncs
           /\ errs' = st.errs
           /\ IF st.status = "err"
              THEN pc' = "done" /\ ret' = ErrRet
              ELSE /\ pc' = IF st.status = "ok" THEN "l_wrap" ELSE "l_loop"
                   /\ UNCHANGED ret
    /\ UNCHANGED <<input, glimit, llimit, partition, executed, order, it, batches, i,
                   combined_results,
                   arg_batch, arg_n, lock, threads, log, iters>>

\* One iteration of the loop of collect_with_limit: match reader.next_batch()
StreamPull(fails) ==
    /\ pc = "l_loop"
    /\ LET part == input.partitions[1]
           item == next_batch(part, reader, IF fails THEN reader + 1 ELSE 0)
           st == collect_iter([reader |-> reader, count |-> count, results |-> results,
                               status |-> "loop", truncs |-> truncs, errs |-> errs],
                              item, llimit.limit)
       IN  /\ reader' = IF it.endless /\ st.reader >= Len(part) THEN 0 ELSE st.reader
           /\ pulled' = [pulled EXCEPT ![1] = Min(@ + 1, MaxPulls)]
           /\ count' = st.count
           /\ results' = IF Len(st.results) > MaxPulls THEN results ELSE st.results
           /\ truncs' = st.truncs
           /\ errs' = st.errs
           /\ IF st.status = "err"
              THEN pc' = "done" /\ ret' = ErrRet
              ELSE /\ pc' = IF st.status = "ok" THEN "l_wrap" ELSE "l_loop"
                   /\ UNCHANGED ret
    /\ UNCHANGED <<input, glimit, llimit, partition, executed, order, it, batches, i,
                   combined_results,
                   arg_batch, arg_n, lock, threads, log, iters>>

NextStream ==
    \/ \E endless \in BOOLEAN : \E fails \in BOOLEAN : StreamExecute(endless, fails)
    \/ \E fails \in BOOLEAN : StreamPull(fails)
    \/ LocalReturn

\* A thread that runs execute keeps running: no step waits for an event.
SpecStream == InitStream /\ [][NextStream]_vars /\ WF_vars(NextStream)

\* ------------------------------------------------ both operators, called twice
\* An operator of either kind is built and executed; after a call that
\* returned an iterator the same operator is executed once more, on an input
\* that replays its batches and a merge that emits in the same order, and the
\* two returned iterators are pulled in any interleaving.
InitBoth == Init \/ InitLocal

Iter(iter) == [schema |-> iter.schema, batches |-> iter.batches, pos |-> 0, yielded |-> <<>>]

\* A second self.execute(0) of the GlobalLimitExec, as one call.
ExecuteAgain ==
    /\ pc = "done"
    /\ ret.kind = "ok"
    /\ glimit # None
    /\ iters' = <<Iter(ret), Iter(GlobalLimitExec_execute(glimit, input, order))>>
    /\ pc' = "twice"
    /\ UNCHANGED <<input, glimit, llimit, partition, executed, pulled, truncs, errs,
                   order, it, batches, i, count, combined_results, reader, results,
                   arg_batch, arg_n, ret, lock, threads, log>>

\* A second self.execute(partition) of the LocalLimitExec, as one call.
LocalExecuteAgain ==
    /\ pc = "done"
    /\ ret.kind = "ok"
    /\ glimit = None
    /\ iters' = <<Iter(ret),
                  Iter(LocalLimitExec_execute(llimit, input, partition, NoFail).it)>>
    /\ pc' = "twice"
    /\ UNCHANGED <<input, glimit, llimit, partition, executed, pulled, truncs, errs,
                   order, it, batches, i, count, combined_results, reader, results,
                   arg_batch, arg_n, ret, lock, threads, log>>

\* next_batch on the k-th returned iterator: it yields the batch at its own
\* position of its own list.
Drain(k) ==
    /\ pc = "twice"
    /\ iters[k].pos < Len(iters[k].batches)
    /\ iters' = [iters EXCEPT ![k].pos = @ + 1,
                              ![k].yielded = Append(@, iters[k].batches[iters[k].pos + 1])]
    /\ UNCHANGED <<input, glimit, llimit, partition, pc, executed, pulled, truncs, errs,
                   order, it, batches, i, count, combined_results, reader, results,
                   arg_batch, arg_n, ret, lock, threads, log>>

NextBoth ==
    \/ Next
    \/ NextLocal
    \/ ExecuteAgain
    \/ LocalExecuteAgain
    \/ \E k \in 1..2 : Drain(k)

SpecBoth == InitBoth /\ [][NextBoth]_vars

\* ------------------------------------------------------------------ claims
IsPrefix(s, t) == Len(s) <= Len(t) /\ SubSeq(t, 1, Len(s)) = s

\* The first n rows of a batch, column by column.
TakeRows(batch, n) ==
    [schema |-> batch.schema,
     columns |-> [c \in 1..Len(batch.columns) |-> SubSeq(batch.columns[c], 1, n)]]

\* The batches of the input's partitions, the partitions in the order ord.
InOrder(inp, ord) == Flatten([j \in 1..Len(ord) |-> inp.partitions[ord[j] + 1]])

C2_LocalPrefix ==
    (pc = "done" /\ errs = 0) =>
        /\ ret.kind = "ok"
        /\ LET part == input.partitions[partition + 1]
               out == ret.batches
               n == Len(out)
           IN  /\ RowSeq(out) =
                      SubSeq(RowSeq(part), 1, Min(llimit.limit, RowCount(part)))
               /\ n <= Len(part)
               /\ \A k \in 1..(n - 1) : out[k] = part[k]
               /\ n > 0 =>
                      \/ out[n] = part[n]
                      \/ out[n] = TakeRows(part[n],
                                           llimit.limit - RowCount(SubSeq(out, 1, n - 1)))

\* C2 witness: the scenario [4,4,4,4] with limit 10 at the model's scale, a
\* whole batch followed by a batch cut to fewer, but some, rows.
C2_Witness ==
    /\ pc = "done"
    /\ ret.kind = "ok"
    /\ Len(ret.batches) = 2
    /\ num_rows(ret.batches[1]) = 2
    /\ num_rows(ret.batches[2]) = 1
    /\ num_rows(input.partitions[partition + 1][2]) = 2

\* C3: collect_with_limit never calls next_batch in a state where the
\* accumulated row count already equals the cap (pc = "l_loop" is the state in
\* which the next step is the call of next_batch).
C3_NoPullAtCap == pc = "l_loop" => count # llimit.limit

\* C4: execute(partition) with partition != 0 panics before the input is
\* executed, before any batch is pulled and without returning an iterator.
C4_PanicBeforeInput ==
    (partition # -1 /\ partition # 0) =>
        /\ pc = "panicked"
        /\ ret = Panic
        /\ executed = {}
        /\ \A q \in 1..partition_count(input) : pulled[q] = 0
        /\ it = None
        /\ batches = <<>>

\* C4 witness: a call with another partition on a non-empty input.
C4_Witness ==
    /\ pc = "panicked"
    /\ partition = 1
    /\ TotalRows(input) > 0
    /\ glimit.limit > 0

\* C5: when a pull (or an execute of the input) fails, the call returns an
\* error and neither an iterator nor batches.
C5_ErrorNoPartial ==
    /\ errs > 0 => (pc = "done" /\ ret = ErrRet)
    /\ ret.kind = "ok" => errs = 0

\* C5 witness: a pull fails after an earlier pull of the same partition
\* delivered a batch with rows; the call returns the error alone.
C5_Witness ==
    /\ pc = "done"
    /\ ret = ErrRet
    /\ errs > 0
    /\ \E q \in 1..partition_count(input) :
          /\ pulled[q] >= 2
          /\ num_rows(input.partitions[q][1]) > 0

\* C6: with a limit above the number of rows available every input row is
\* returned, truncate_batch is never called, every output batch is an input
\* batch unchanged and no error is raised; per partition for the local
\* limiter, over all partitions for the global limiter.
C6_LimitAboveTotal ==
    /\ (pc = "merge") =>
          \A q \in 1..partition_count(input) :
              llimit.limit > RowCount(input.partitions[q]) =>
                  LET r == LocalLimitExec_execute(llimit, input, q - 1, NoFail)
                  IN  r.ok /\ r.truncs = 0 /\ r.it.batches = input.partitions[q]
    /\ (glimit.limit > TotalRows(input)) =>
          /\ truncs = 0
          /\ (pc = "done" /\ errs = 0) =>
                /\ ret.kind = "ok"
                /\ ret.batches = InOrder(input, order)

\* C6 witness: a finished call over two non-empty partitions with the limit
\* above the total.
C6_Witness ==
    /\ pc = "done"
    /\ ret.kind = "ok"
    /\ glimit.limit > TotalRows(input)
    /\ partition_count(input) = 2
    /\ \A q \in 1..2 : RowCount(input.partitions[q]) > 0

\* C7: truncate_batch(B, n) returns a batch of min(n, rows(B)) rows with the
\* schema and the columns of B in order, every column holding rows
\* 0 .. min(n, rows(B)) - 1 of B, all columns of one length.
C7_TruncateBatch ==
    pc = "done" =>
        /\ ret.kind = "batch"
        /\ LET m == Min(arg_n, num_rows(arg_batch))
           IN  /\ num_rows(ret.batch) = m
               /\ ret.batch.schema = arg_batch.schema
               /\ num_columns(ret.batch) = num_columns(arg_batch)
               /\ \A c \in 1..num_columns(arg_batch) :
                      /\ Len(ret.batch.columns[c]) = m
                      /\ \A r \in 1..m : ret.batch.columns[c][r] = arg_batch.columns[c][r]

\* C7 witness: a two-column batch cut to fewer, but some, rows.
C7_Witness ==
    /\ pc = "done"
    /\ ret.kind = "batch"
    /\ num_columns(arg_batch) = 2
    /\ arg_n > 0
    /\ arg_n < num_rows(arg_batch)

\* C8: GlobalLimitExec.schema() equals input.schema() for every GlobalLimitExec
\* built with GlobalLimitExec::new(schema, input, limit, concurrency).
C8_SchemaIsInputSchema ==
    (pc = "done" /\ ret.kind = "schema" /\ ret.op = "GlobalLimitExec") =>
        ret.schema = input.schema

\* C9: applying GlobalLimitExec with the same limit to the batches returned by
\* execute(0), exposed as a single partition, yields the identical batches.
C9_Idempotent ==
    (pc = "done" /\ ret.kind = "ok") =>
        LET again == [schema |-> ret.schema, partitions |-> <<ret.batches>>]
        IN  GlobalLimitExec_execute(glimit, again, <<0>>).batches = ret.batches

\* C9 witness: a result of several batches, the last of them truncated.
C9_Witness ==
    /\ pc = "done"
    /\ ret.kind = "ok"
    /\ Len(ret.batches) >= 2
    /\ truncs > 0
    /\ RowCount(ret.batches) = glimit.limit

\* C10: for L1 <= L2 the rows returned with limit L1 are a prefix of the rows
\* returned with limit L2 over the same input and the same merge order.
C10_Monotone ==
    (pc = "done" /\ ret.kind = "ok") =>
        \A L1 \in 0..glimit.limit :
            IsPrefix(RowSeq(GlobalLimitExec_execute([glimit EXCEPT !.limit = L1],
                                                    input, order).batches),
                     RowSeq(ret.batches))

\* C10 witness: a result with a truncated batch and rows of both partitions,
\* the merge having emitted partition 1 first.
C10_Witness ==
    /\ pc = "done"
    /\ ret.kind = "ok"
    /\ order = <<1, 0>>
    /\ glimit.limit >= 2
    /\ RowCount(batches) > glimit.limit
    /\ RowCount(input.partitions[2]) < glimit.limit

\* C11 as stated: every local pre-filter holds at most limit rows and the
\* batches collected from the merge output never sum to more than limit rows.
C11_CollectedWithinLimit ==
    /\ (pc = "merge") =>
          \A q \in 1..partition_count(input) :
              LET r == LocalLimitExec_execute(llimit, input, q - 1, NoFail)
              IN  r.ok => RowCount(r.it.batches) <= llimit.limit
    /\ RowCount(batches) <= glimit.limit

\* C11 amended: every local pre-filter holds at most limit rows, the batches
\* collected from the merge output sum to at most partition count x limit
\* rows (and to no more than the input holds), and the batches retained by
\* the final pass never sum to more than limit rows.
C11_MemoryBound ==
    /\ (pc = "merge") =>
          \A q \in 1..partition_count(input) :
              LET r == LocalLimitExec_execute(llimit, input, q - 1, NoFail)
              IN  r.ok => RowCount(r.it.batches) <= llimit.limit
    /\ it # None => RowCount(it.batches) <= partition_count(input) * glimit.limit
    /\ RowCount(batches) <= partition_count(input) * glimit.limit
    /\ RowCount(batches) <= TotalRows(input)
    /\ RowCount(combined_results) <= glimit.limit

\* C11 witness: every partition fills its local limit, so the collected
\* batches hold partition count x limit rows, more than the limit.
C11_Witness ==
    /\ pc = "done"
    /\ ret.kind = "ok"
    /\ partition_count(input) = 2
    /\ glimit.limit > 0
    /\ RowCount(batches) = 2 * glimit.limit
    /\ RowCount(batches) < TotalRows(input)

\* C12: threads running collect_with_limit on one shared reader: at most one
\* next_batch call is in progress at any time, a thread inside its loop holds
\* the lock, the pulls of two collections never interleave and every batch is
\* handed to exactly one collector.
C12_MutualExclusion ==
    pc = "shared" =>
        /\ Cardinality({t \in 1..NumThreads : threads[t].pc = "pulling"}) <= 1
        /\ \A t \in 1..NumThreads : threads[t].pc \in {"locked", "pulling"} => lock = t
        /\ \A a \in 1..Len(log) : \A b \in a..Len(log) : \A c \in b..Len(log) :
               log[a].t = log[c].t => log[b].t = log[a].t
        /\ \A a \in 1..Len(log) : \A b \in 1..Len(log) :
               log[a].idx = log[b].idx => a = b
        /\ \A a \in 1..Len(log) : log[a].idx = a
        /\ \A t \in 1..NumThreads :
               (threads[t].pc = "done" /\ threads[t].ret.kind = "ok") =>
                   Len(threads[t].ret.batches) =
                       Cardinality({a \in 1..Len(log) :
                                       log[a].t = t /\ log[a].idx <= Len(input.partitions[1])})

\* C12 witness: two collections have drained the same reader one after the
\* other, each of them handed one batch with rows.
C12_Witness ==
    /\ pc = "shared"
    /\ \A t \in 1..2 :
          /\ threads[t].pc = "done"
          /\ threads[t].ret.kind = "ok"
          /\ Len(threads[t].ret.batches) = 1
          /\ num_rows(threads[t].ret.batches[1]) > 0

\* The batches retained so far are the merge's batches in the merge's order,
\* whole while the running count plus the batch's rows is within the limit,
\* with at most one truncated batch, the last one, cut to the rows left.
RetainedPrefix ==
    LET n == Len(combined_results) IN
    /\ n <= Len(batches)
    /\ IsPrefix(RowSeq(combined_results), RowSeq(batches))
    /\ \A k \in 1..n :
           IF RowCount(SubSeq(batches, 1, k)) <= glimit.limit
           THEN combined_results[k] = batches[k]
           ELSE /\ k = n
                /\ combined_results[k] =
                       TakeRows(batches[k],
                                glimit.limit - RowCount(SubSeq(batches, 1, k - 1)))
    /\ Cardinality({k \in 1..n : combined_results[k] # batches[k]}) <= 1
    /\ (n > 0 /\ combined_results[n] # batches[n]) => count = glimit.limit
    /\ count = RowCount(combined_results)
    /\ ret.kind # "err" => n = i - 1

\* C13 as stated: the retained batches are that row-wise prefix of the merge's
\* batches, and once the running count equals the limit no batch is examined.
C13_NoBatchAfterLimit ==
    pc \in {"loop", "wrap", "done"} =>
        /\ RetainedPrefix
        /\ (pc = "loop" /\ i <= Len(batches)) => count < glimit.limit

\* C13 amended: the retained batches are that row-wise prefix of the merge's
\* batches, and once a batch has brought the running count to the limit no
\* later batch is examined; with limit = 0 the first batch of the merge is
\* still examined and retained with zero rows.
C13_RetainedPrefix ==
    pc \in {"loop", "wrap", "done"} =>
        /\ RetainedPrefix
        /\ (pc = "loop" /\ i <= Len(batches)) =>
               (count < glimit.limit \/ (glimit.limit = 0 /\ i = 1))
        /\ (pc = "loop" /\ i > 1) => count < glimit.limit
        /\ (glimit.limit = 0 /\ pc \in {"wrap", "done"} /\ Len(batches) > 0
                /\ ret.kind # "err") =>
               (Len(combined_results) = 1 /\ num_rows(combined_results[1]) = 0)

\* C13 witness: the merge emitted two batches, the first one filled the limit
\* whole, and the second one was neither examined nor retained.
C13_Witness ==
    /\ pc = "done"
    /\ ret.kind = "ok"
    /\ Len(batches) = 2
    /\ Len(ret.batches) = 1
    /\ ret.batches[1] = batches[1]
    /\ i = 2
    /\ count = glimit.limit
    /\ glimit.limit > 0

\* C14: the rows returned by execute(0) (local limit, merge, exact truncation)
\* are the rows of the unlimited partitions merged in the same order and cut
\* to the first limit rows.
C14_PrefilterNotNeeded ==
    (pc = "done" /\ ret.kind = "ok") =>
        RowSeq(ret.batches) =
            SubSeq(RowSeq(InOrder(input, order)), 1,
                   Min(glimit.limit, RowCount(InOrder(input, order))))

\* C14 witness: the local limits dropped rows of the partitions and the global
\* loop dropped rows of what the merge emitted.
C14_Witness ==
    /\ pc = "done"
    /\ ret.kind = "ok"
    /\ partition_count(input) = 2
    /\ order = <<1, 0>>
    /\ RowCount(batches) < TotalRows(input)
    /\ RowCount(ret.batches) < RowCount(batches)
    /\ RowCount(ret.batches) > 0

\* C15 as stated: on every upstream whose every pull yields a batch, the end
\* of the stream or an error, the loop of collect_with_limit returns after
\* finitely many pulls and LocalLimitExec::execute returns.
C15_AlwaysReturns == (pc = "l_loop") ~> (pc = "done")

\* C15 amended: the loop returns after finitely many pulls when the limit is 0,
\* when the upstream ends, or when the upstream keeps yielding batches with
\* rows; every return is by the cap, the end of the stream or a failed pull.
C15_Termination ==
    /\ (/\ pc = "l_loop"
        /\ \/ llimit.limit = 0
           \/ ~it.endless
           \/ \E k \in 1..Len(input.partitions[1]) :
                  num_rows(input.partitions[1][k]) > 0)
           ~> (pc = "done")
    /\ [](pc = "l_wrap" =>
             \/ count = llimit.limit
             \/ (~it.endless /\ reader = Len(input.partitions[1]) + 1))
    /\ []((pc = "done" /\ ret.kind = "err") => errs > 0)
    /\ []((pc = "l_loop" /\ ~it.endless) => pulled[1] <= Len(input.partitions[1]))

\* C15 witness: an endless upstream was pulled past its last batch, the
\* zero-row batches in it did not stop the loop, and the cap ended it.
C15_Witness ==
    /\ pc = "done"
    /\ ret.kind = "ok"
    /\ it.kind = "stream"
    /\ it.endless
    /\ pulled[1] > Len(input.partitions[1])
    /\ \E k \in 1..Len(results) : num_rows(results[k]) = 0
    /\ count = llimit.limit
    /\ llimit.limit > 1

\* C16: no step of an execute call changes the operator (its input, schema,
\* limit, concurrency); the iterator that a call returns holds the batches
\* that a second call on the same operator returns, and each of the two
\* iterators yields those batches in order whatever has been pulled from the
\* other one.
C16_FreshIterators ==
    /\ [][/\ input' = input
          /\ glimit # None => glimit' = glimit
          /\ glimit = None => (glimit' = None /\ llimit' = llimit)]_vars
    /\ []((pc = "done" /\ ret.kind = "ok" /\ glimit # None) =>
             ret.batches = GlobalLimitExec_execute(glimit, input, order).batches)
    /\ [](pc = "twice" =>
             /\ iters[1].batches = iters[2].batches
             /\ iters[1].schema = iters[2].schema
             /\ \A k \in 1..2 :
                    iters[k].yielded = SubSeq(ret.batches, 1, iters[k].pos))

\* C16 witness: of two iterators returned by two calls of a GlobalLimitExec,
\* one has been pulled to its end and the other one has yielded nothing yet.
C16_Witness ==
    /\ pc = "twice"
    /\ glimit # None
    /\ Len(iters[1].batches) = 2
    /\ iters[1].pos = 2
    /\ iters[2].pos = 0
    /\ RowCount(iters[2].batches) > 0

\* C17: the schema of the iterator returned by LocalLimitExec::execute(p) is
\* the schema that LocalLimitExec::schema() returns and the schema of the
\* batches in it.
C17_IteratorSchema ==
    (pc = "done" /\ ret.kind = "ok" /\ glimit = None) =>
        /\ ret.schema = LocalLimitExec_schema(llimit, input)
        /\ \A k \in 1..Len(ret.batches) : ret.batches[k].schema = ret.schema

\* C18: in the loop of collect_with_limit and in the loop of
\* GlobalLimitExec::execute the running count stays within 0..limit at every
\* step, so limit - count, the capacity handed to truncate_batch, is in
\* 0..limit and the unsigned subtraction does not wrap.
C18_CountWithinLimit ==
    /\ count >= 0
    /\ (glimit # None) =>
           /\ count <= glimit.limit
           /\ glimit.limit - count \in 0..glimit.limit
    /\ (glimit = None) =>
           /\ count <= llimit.limit
           /\ llimit.limit - count \in 0..llimit.limit
    /\ \A k \in 1..Len(iters) : RowCount(iters[k].batches) = count

\* C18 witness: the loop of collect_with_limit holds rows below the limit and
\* the next batch of the partition has more rows than the capacity left.
C18_Witness ==
    /\ pc = "l_loop"
    /\ glimit = None
    /\ count > 0
    /\ count < llimit.limit
    /\ reader < Len(input.partitions[partition + 1])
    /\ num_rows(input.partitions[partition + 1][reader + 1]) > llimit.limit - count

====
